---- MODULE Spec2Model ----
(***************************************************************************)
(* Model of CWasmContractTx (src/src/tx/wasmcontracttx.cpp): admission     *)
(* (CheckTx), the billing timer, execution (ExecuteTx / dispatch) and the  *)
(* trace serializer (to_variant).                                          *)
(*                                                                         *)
(* 64-bit wasm names are represented by their canonical string form; the  *)
(* name <-> string coding is a bijection on canonical names.               *)
(***************************************************************************)
EXTENDS Integers, Sequences, FiniteSets, TLC

VARIABLES
    tx,            \* the transaction: inlinetransactions, llFees, nRunStep
    env,           \* CTxExecuteContext and the stores it borrows
    check_result,  \* what CheckTx handed back to its caller
    pc,            \* position of ExecuteTx: "idle", "loop", "engine", "done"
    k,             \* index of the inline transaction the for-loop is at
    now,           \* system_clock::now(), in nanoseconds
    pseudo_start,  \* CWasmContractTx::pseudo_start, in nanoseconds
    billed_time,   \* CWasmContractTx::billed_time, in microseconds
    trx_trace,     \* the local wasm::transaction_trace of ExecuteTx
    exec_result,   \* what ExecuteTx handed back to its caller
    ret,           \* the payload given to CValidationState::SetReturn
    ctx,           \* the wasm_context of the running top-level dispatch
    calls,         \* every DispatchInlineTransaction call, in call order
    hist,          \* history of the run: timer calls, running time, raise
    ser_in,        \* input of the inline-transaction serializer
    ser_out        \* its output

vars == <<tx, env, check_result, pc, k, now, pseudo_start, billed_time,
          trx_trace, exec_result, ret, ctx, calls, hist, ser_in, ser_out>>

(***************************************************************************)
(* Bounds                                                                  *)
(***************************************************************************)
MaxInline == 2
MaxFee == 3
MaxTicks == 3
MaxNest == 1
MaxData == 2

(***************************************************************************)
(* Names, accounts and the contract store                                  *)
(***************************************************************************)
Sender == "alice"
Other == "bob"
setcode == "setcode"
transfer == "transfer"

NativeContracts == {"wasmio"}
DeployedAccounts == {"token", "norec", "nocode"}
ContractRecords == {"token", "nocode"}
Contracts == {"wasmio", "token", "ghost", "norec", "nocode"}

is_native_contract(c) == c \in NativeContracts

\* database.accountCache.GetAccount(nick, account)
GetAccount(c) == c \in DeployedAccounts

\* database.contractCache.GetContract(regid, contract)
GetContract(c) == c \in ContractRecords

code_of(c) == IF c = "token" THEN <<1>> ELSE <<>>
abi_of(c) == IF c = "token" THEN <<2>> ELSE <<>>

Permission(a) == [account |-> a, perm |-> "active"]

InlineTx(c, act, auth, d) ==
    [contract |-> c, action |-> act, authorization |-> auth, data |-> d]

(***************************************************************************)
(* Exceptions and rejections                                               *)
(***************************************************************************)
NoThrow == [code |-> "", msg |-> ""]

\* WASM_ASSERT(false, account_operation_exception, msg)
account_operation_exception(m) == [code |-> "account_operation_exception", msg |-> m]

MsgNoInline == "Tx must have at least 1 inline_transaction"
MsgNoAccount == "contract account does not exist"
MsgNoContract == "cannot get contract with nick name"
MsgNoCode == "contract abi or code does not exist"
MsgFee == "fee too litter to afford fuel"
MsgGetAccount == "get account failed"
MsgUnregistered == "account unregistered"
MsgAuth == "authorization does not have signature"
MsgMinFee == "get min_fee failed"

\* mutant: the rejection carries a fixed code instead of the exception's
DoS_generic(e) == [outcome |-> "reject", code |-> "REJECT_INVALID", msg |-> e.msg]

\* context.pState->DoS(100, ERRORMSG(e.detail()), e.code(), e.detail())
DoS(e) == [outcome |-> "reject", code |-> e.code, msg |-> e.msg]

\* the rejection kinds of the error taxonomy, told apart by message
Kind(r) ==
    IF r.outcome # "reject" THEN "None"
    ELSE IF r.msg = MsgNoInline THEN "MalformedTransaction"
    ELSE IF r.msg \in {MsgNoAccount, MsgNoContract} THEN "ContractNotFound"
    ELSE IF r.msg = MsgNoCode THEN "ContractIncomplete"
    ELSE IF r.msg = MsgFee THEN "InsufficientFee"
    ELSE IF r.msg \in {MsgGetAccount, MsgUnregistered} THEN "UnregisteredAccount"
    ELSE IF r.msg = MsgAuth THEN "AuthorizationDenied"
    ELSE "Framework"

(***************************************************************************)
(* contract_is_valid                                                       *)
(***************************************************************************)
\* one pass of the loop body
contract_check(c) ==
    IF is_native_contract(c) THEN NoThrow
    ELSE IF ~GetAccount(c) THEN account_operation_exception(MsgNoAccount)
    ELSE IF ~GetContract(c) THEN account_operation_exception(MsgNoContract)
    ELSE IF ~(Len(code_of(c)) > 0 /\ Len(abi_of(c)) > 0)
         THEN account_operation_exception(MsgNoCode)
    ELSE NoThrow

\* mutant: only the first inline transaction's contract is looked at
contract_loop_first(itxs, i) ==
    IF i > Len(itxs) \/ i > 1 THEN NoThrow
    ELSE contract_check(itxs[i].contract)

RECURSIVE contract_loop(_, _)
contract_loop(itxs, i) ==
    IF i > Len(itxs) THEN NoThrow
    ELSE LET e == contract_check(itxs[i].contract)
         IN IF e # NoThrow THEN e ELSE contract_loop(itxs, i + 1)

contract_is_valid(itxs) == contract_loop(itxs, 1)

(***************************************************************************)
(* authorization_is_valid                                                  *)
(***************************************************************************)
\* mutant: only the first permission of a list is compared
perm_loop_first(auth, account, j) ==
    IF j > Len(auth) \/ j > 1 THEN NoThrow
    ELSE IF auth[j].account # account THEN account_operation_exception(MsgAuth)
    ELSE NoThrow

RECURSIVE perm_loop(_, _, _)
perm_loop(auth, account, j) ==
    IF j > Len(auth) THEN NoThrow
    ELSE IF auth[j].account # account THEN account_operation_exception(MsgAuth)
    ELSE perm_loop(auth, account, j + 1)

RECURSIVE auth_loop(_, _, _)
auth_loop(itxs, account, i) ==
    IF i > Len(itxs) THEN NoThrow
    ELSE LET e == perm_loop(itxs[i].authorization, account, 1)
         IN IF e # NoThrow THEN e ELSE auth_loop(itxs, account, i + 1)

authorization_is_valid(itxs, account) == auth_loop(itxs, account, 1)

(***************************************************************************)
(* GetFuel: std::max<uint64_t>((nRunStep / 100.0f) * nFuelRate, minFee),   *)
(* computed in IEEE-754 binary32.  A binary32 value is [m, s], standing    *)
(* for m / 2^s with m < 2^24.                                              *)
(***************************************************************************)
RECURSIVE Pow2(_)
Pow2(n) == IF n = 0 THEN 1 ELSE 2 * Pow2(n - 1)

Max(a, b) == IF a >= b THEN a ELSE b

\* round to nearest, ties to even
RoundHalfEven(num, den) ==
    LET q == num \div den
        r == num % den
    IN IF 2 * r > den \/ (2 * r = den /\ q % 2 = 1) THEN q + 1 ELSE q

RECURSIVE F32Scale(_, _, _)
F32Scale(num, den, s) ==
    IF num * Pow2(s) < den * Pow2(23) THEN F32Scale(num, den, s + 1) ELSE s

\* (float)n / (float)d
F32Div(n, d) ==
    IF n = 0 THEN [m |-> 0, s |-> 0]
    ELSE LET s == F32Scale(n, d, 0)
             m == RoundHalfEven(n * Pow2(s), d)
         IN IF m = Pow2(24) THEN [m |-> Pow2(23), s |-> s - 1] ELSE [m |-> m, s |-> s]

RECURSIVE F32Shift(_, _)
F32Shift(p, t) == IF p \div Pow2(t) >= Pow2(24) THEN F32Shift(p, t + 1) ELSE t

\* f * (float)r
F32Mul(f, r) ==
    LET p == f.m * r
        t == F32Shift(p, 0)
        m == RoundHalfEven(p, Pow2(t))
    IN IF m = Pow2(24) THEN [m |-> Pow2(23), s |-> f.s - t - 1] ELSE [m |-> m, s |-> f.s - t]

\* conversion of a binary32 to uint64_t: truncation
F32ToU64(f) == f.m \div Pow2(f.s)

\* GetTxMinFee(nTxType, height, fee_symbol, minFee)
GetTxMinFee(e) == e.min_fee_ok

GetFuel(t, e) ==
    IF ~GetTxMinFee(e)
    THEN [thrown |-> TRUE, fuel |-> 0]
    ELSE [thrown |-> FALSE,
          fuel |-> Max(F32ToU64(F32Mul(F32Div(t.nRunStep, 100), e.fuel_rate)), e.min_fee)]

(***************************************************************************)
(* CheckTx                                                                 *)
(***************************************************************************)
\* IMPLEMENT_CHECK_TX_FEE: fee >= network minimum
CHECK_TX_FEE(t, e) ==
    IF e.min_fee_ok THEN t.llFees >= e.min_fee ELSE e.fee_fallback

\* IMPLEMENT_CHECK_TX_REGID(txUid.type()): sender identity well-formed
CHECK_TX_REGID(e) == e.regid_ok

\* IMPLEMENT_CHECK_TX_SIGNATURE(account.owner_pubkey)
CHECK_TX_SIGNATURE(e) == e.sig_ok

\* the rejection a framework macro returns through state.DoS
FrameworkReject(m) == [outcome |-> "reject", code |-> "REJECT_INVALID", msg |-> m]

\* database.accountCache.GetAccount(txUid, account)
GetSender(e) == e.sender # "missing"
HaveOwnerPubKey(e) == e.sender = "registered"

\* wasm::name(account.nickid.ToString()).value
SenderName(e) == Sender

Stopped(r, ev) ==
    [outcome |-> r.outcome, code |-> r.code, msg |-> r.msg, evaluated |-> ev]

Accepted == [outcome |-> "accept", code |-> "", msg |-> ""]
Fault == [outcome |-> "fault", code |-> "runtime_error", msg |-> MsgMinFee]

\* mutant: the emptiness test lets the empty list through
InlineNonEmpty_any(itxs) == Len(itxs) >= 0

\* WASM_ASSERT(inlinetransactions.size() > 0, ...)
InlineNonEmpty(itxs) == Len(itxs) > 0

\* mutant: a fee equal to the fuel cost is let through
FeeAffordsFuel_ge(fees, fuel) == fees >= fuel

\* WASM_ASSERT(llFees > llFuel, ...)
FeeAffordsFuel(fees, fuel) == fees > fuel

CheckTx(t, e) ==
    LET itxs == t.inlinetransactions
        cv == contract_is_valid(itxs)
        fuel == GetFuel(t, e)
        av == authorization_is_valid(itxs, SenderName(e))
    IN IF ~InlineNonEmpty(itxs)
       THEN Stopped(DoS(account_operation_exception(MsgNoInline)), <<"inline">>)
       ELSE IF ~CHECK_TX_FEE(t, e)
       THEN Stopped(FrameworkReject("bad-tx-fee-toosmall"), <<"inline", "fee">>)
       ELSE IF ~CHECK_TX_REGID(e)
       THEN Stopped(FrameworkReject("txUid-type-error"), <<"inline", "fee", "regid">>)
       ELSE IF cv # NoThrow
       THEN Stopped(DoS(cv), <<"inline", "fee", "regid", "contract">>)
       ELSE IF fuel.thrown
       THEN Stopped(Fault, <<"inline", "fee", "regid", "contract", "fuel">>)
       ELSE IF ~FeeAffordsFuel(t.llFees, fuel.fuel)
       THEN Stopped(DoS(account_operation_exception(MsgFee)),
                    <<"inline", "fee", "regid", "contract", "fuel">>)
       ELSE IF ~GetSender(e)
       THEN Stopped(DoS(account_operation_exception(MsgGetAccount)),
                    <<"inline", "fee", "regid", "contract", "fuel", "account">>)
       ELSE IF ~HaveOwnerPubKey(e)
       THEN Stopped(DoS(account_operation_exception(MsgUnregistered)),
                    <<"inline", "fee", "regid", "contract", "fuel", "account", "pubkey">>)
       ELSE IF ~CHECK_TX_SIGNATURE(e)
       THEN Stopped(FrameworkReject("bad-signature"),
                    <<"inline", "fee", "regid", "contract", "fuel", "account", "pubkey",
                      "signature">>)
       ELSE IF av # NoThrow
       THEN Stopped(DoS(av),
                    <<"inline", "fee", "regid", "contract", "fuel", "account", "pubkey",
                      "signature", "authorization">>)
       ELSE Stopped(Accepted,
                    <<"inline", "fee", "regid", "contract", "fuel", "account", "pubkey",
                      "signature", "authorization">>)

(***************************************************************************)
(* Trace serializer: to_variant                                            *)
(***************************************************************************)
HexDigit == <<"0", "1", "2", "3", "4", "5", "6", "7",
              "8", "9", "a", "b", "c", "d", "e", "f">>

\* ToHex(t.data, ""): two lowercase hex digits per byte, no separator
RECURSIVE ToHex(_)
ToHex(d) ==
    IF d = <<>> THEN ""
    ELSE HexDigit[(Head(d) \div 16) + 1] \o HexDigit[(Head(d) % 16) + 1] \o ToHex(Tail(d))

\* to_variant of a string or of a wasm::name: a string value
Str(s) == [type |-> "string", v |-> s]

\* wasm::abi_serializer::unpack(abi, action, data, ...) when it succeeds:
\* the object decoded from these bytes
Unpacked(t) == [type |-> "object", v |-> t.action \o ":" \o ToHex(t.data)]

\* get_native_contract_abi(contract, abi)
native_abi(c) == IF is_native_contract(c) THEN <<3>> ELSE <<>>

\* the abi the serializer finds for a contract
abi_for(c) ==
    IF is_native_contract(c) THEN native_abi(c)
    ELSE IF GetAccount(c) /\ GetContract(c) THEN abi_of(c)
    ELSE <<>>

to_variant_permission(p) == [account |-> Str(p.account), permission |-> Str(p.perm)]

to_variant_inline_transaction(t, e) ==
    LET val_contract == Str(t.contract)
        val_action == Str(t.action)
        abi == abi_for(t.contract)
        val == IF Len(abi) > 0 /\ t.action # setcode
               THEN IF Len(t.data) > 0
                    THEN IF e.unpack_ok THEN Unpacked(t) ELSE Str(ToHex(t.data))
                    ELSE val_action
               ELSE Str(ToHex(t.data))
    IN [contract |-> val_contract,
        action |-> val_action,
        authorization |-> [i \in 1..Len(t.authorization) |->
                              to_variant_permission(t.authorization[i])],
        data |-> val]

RECURSIVE to_variant_inline_transaction_trace(_, _)
to_variant_inline_transaction_trace(t, e) ==
    LET obj == [trx_id |-> Str(t.trx_id),
                receiver |-> Str(t.receiver),
                trx |-> to_variant_inline_transaction(t.trx, e),
                console |-> Str(t.console)]
    IN IF Len(t.inline_traces) > 0
       THEN [inline_traces |-> [i \in 1..Len(t.inline_traces) |->
                to_variant_inline_transaction_trace(t.inline_traces[i], e)]] @@ obj
       ELSE obj

to_variant_transaction_trace(t, e) ==
    LET obj == [trx_id |-> Str(t.trx_id), elapsed |-> t.elapsed]
    IN IF Len(t.traces) > 0
       THEN [traces |-> [i \in 1..Len(t.traces) |->
                to_variant_inline_transaction_trace(t.traces[i], e)]] @@ obj
       ELSE obj

(***************************************************************************)
(* Dispatch and the execution engine                                       *)
(***************************************************************************)
NsPerUs == 1000

\* std::chrono::duration_cast<std::chrono::microseconds>: truncation
duration_cast_us(ns) == IF ns >= 0 THEN ns \div NsPerUs ELSE -((-ns) \div NsPerUs)

TxHash == "txid"

NoTrace == [trx_id |-> "", elapsed |-> 0, traces |-> <<>>]
EmptyInlineTrace ==
    [trx_id |-> "", receiver |-> "", trx |-> InlineTx("", "", <<>>, <<>>),
     console |-> "", inline_traces |-> <<>>]
NoCtx == [trx |-> InlineTx("", "", <<>>, <<>>), recurse_depth |-> 0, _receiver |-> ""]

\* mutant: the context always starts at depth 0
DispatchCtx_reset(trx, receiver, recurse_depth) ==
    [trx |-> trx, recurse_depth |-> 0, _receiver |-> receiver]

\* wasm_context ctx(*this, trx, database, recurse_depth); ctx._receiver = receiver;
DispatchCtx(trx, receiver, recurse_depth) ==
    [trx |-> trx, recurse_depth |-> recurse_depth, _receiver |-> receiver]

\* one DispatchInlineTransaction call: its arguments and the context it built
CallRecord(top, receiver, depth, c) ==
    [top |-> top, receiver |-> receiver, depth |-> depth, ctx |-> c]

\* the inline transaction a running contract issues
NestedTx(c) == InlineTx("wasmio", transfer, <<Permission(c._receiver)>>, <<171>>)

ConsoleText(n) == IF n = 0 THEN "" ELSE "call"

\* wasm_context::execute(trace): fills the trace and dispatches, one level
\* deeper, the inline transactions the contract issues (here a chain of n)
RECURSIVE execute(_, _)
execute(c, n) ==
    LET sub == NestedTx(c)
        subctx == DispatchCtx(sub, sub.contract, c.recurse_depth + 1)
        r == execute(subctx, n - 1)
    IN [trace |-> [trx_id |-> TxHash,
                   receiver |-> c._receiver,
                   trx |-> c.trx,
                   console |-> ConsoleText(n),
                   inline_traces |-> IF n = 0 THEN <<>> ELSE <<r.trace>>],
        calls |-> IF n = 0 THEN <<>>
                  ELSE <<CallRecord(0, sub.contract, c.recurse_depth + 1, subctx)>>
                       \o r.calls]

EngineErrors ==
    {[code |-> "wasm_assert_exception", msg |-> "assert failed"],
     [code |-> "wasm_memory_exception", msg |-> "access violation"]}

(***************************************************************************)
(* Inputs                                                                  *)
(***************************************************************************)
SeqsUpTo(S, n) == UNION {[1..m -> S] : m \in 0..n}

RunSteps == {0, 150}
FuelRates == {1, 2}
MinFees == {1, 3}
Deltas == {400, 1000}
Bytes == {0, 171, 255}

AdmInlineTxs ==
    {InlineTx("wasmio", transfer, <<Permission(Sender)>>, <<>>),
     InlineTx("token", transfer, <<Permission(Sender)>>, <<>>),
     InlineTx("token", transfer, <<Permission(Sender), Permission(Other)>>, <<>>),
     InlineTx("token", transfer, <<>>, <<>>),
     InlineTx("ghost", transfer, <<Permission(Sender)>>, <<>>),
     InlineTx("norec", transfer, <<Permission(Other)>>, <<>>),
     InlineTx("nocode", transfer, <<Permission(Sender)>>, <<>>)}

AdmTxs ==
    [inlinetransactions : SeqsUpTo(AdmInlineTxs, MaxInline),
     llFees : 0..MaxFee,
     nRunStep : RunSteps]

AdmEnvs ==
    {e \in [fuel_rate : FuelRates, min_fee_ok : BOOLEAN, min_fee : MinFees \cup {0},
            fee_fallback : BOOLEAN, regid_ok : BOOLEAN,
            sender : {"missing", "unregistered", "registered"},
            sig_ok : BOOLEAN, unpack_ok : {TRUE}] :
        /\ e.min_fee_ok => (e.min_fee \in MinFees /\ ~e.fee_fallback)
        /\ ~e.min_fee_ok => (e.min_fee = 0 /\ e.fuel_rate = 1)
        /\ e.sender # "registered" => ~e.sig_ok}

ExecInlineTxs ==
    {InlineTx("token", transfer, <<Permission(Sender)>>, <<171>>),
     InlineTx("wasmio", setcode, <<Permission(Sender)>>, <<0, 255>>),
     InlineTx("nocode", transfer, <<Permission(Other)>>, <<>>)}

ExecTxs ==
    [inlinetransactions : SeqsUpTo(ExecInlineTxs, MaxInline),
     llFees : {1, MaxFee},
     nRunStep : {0}]

ExecEnv ==
    [fuel_rate |-> 1, min_fee_ok |-> TRUE, min_fee |-> 1, fee_fallback |-> FALSE,
     regid_ok |-> TRUE, sender |-> "registered", sig_ok |-> TRUE, unpack_ok |-> TRUE]

ExecEnvs ==
    {[ExecEnv EXCEPT !.min_fee_ok = m, !.min_fee = IF m THEN 1 ELSE 0,
                     !.fee_fallback = ~m] : m \in BOOLEAN}

SerInputs ==
    {InlineTx(c, a, auth, d) :
        c \in Contracts, a \in {setcode, transfer},
        auth \in {<<>>, <<Permission(Sender)>>}, d \in SeqsUpTo(Bytes, MaxData)}

SerEnvs == {[ExecEnv EXCEPT !.unpack_ok = b] : b \in BOOLEAN}

NoTx == [inlinetransactions |-> <<>>, llFees |-> 0, nRunStep |-> 0]
NoCheck == [outcome |-> "none", code |-> "", msg |-> "", evaluated |-> <<>>]
NoResult == [outcome |-> "none", code |-> "", msg |-> ""]
NoReturn == [set |-> FALSE, doc |-> [trx_id |-> Str(""), elapsed |-> 0]]
NoValue == [type |-> "none", v |-> ""]
NoObject == [contract |-> NoValue, action |-> NoValue, authorization |-> <<>>,
             data |-> NoValue]
NoHist ==
    [lastOp |-> "none", paused |-> FALSE, paired |-> TRUE, run_ns |-> 0, ticks |-> 0,
     entered |-> 0, completed |-> 0, raised |-> NoThrow, plans |-> <<>>]

\* the state of a freshly constructed transaction object
Fresh ==
    /\ check_result = NoCheck
    /\ pc = "idle"
    /\ k = 0
    /\ now = 0
    /\ pseudo_start = 0
    /\ billed_time = 0
    /\ trx_trace = NoTrace
    /\ exec_result = NoResult
    /\ ret = NoReturn
    /\ ctx = NoCtx
    /\ calls = <<>>
    /\ hist = NoHist
    /\ ser_out = NoObject

(***************************************************************************)
(* Admission                                                               *)
(***************************************************************************)
InitAdmission ==
    /\ tx \in AdmTxs
    /\ env \in AdmEnvs
    /\ ser_in = InlineTx("", "", <<>>, <<>>)
    /\ Fresh

CheckTxCall ==
    /\ check_result = NoCheck
    /\ check_result' = CheckTx(tx, env)
    /\ UNCHANGED <<tx, env, pc, k, now, pseudo_start, billed_time, trx_trace,
                   exec_result, ret, ctx, calls, hist, ser_in, ser_out>>

NextAdmission == CheckTxCall

SpecAdmission == InitAdmission /\ [][NextAdmission]_vars

(***************************************************************************)
(* Serialization of one inline transaction                                 *)
(***************************************************************************)
InitSerialize ==
    /\ tx = NoTx
    /\ env \in SerEnvs
    /\ ser_in \in SerInputs
    /\ Fresh

Serialize ==
    /\ ser_out = NoObject
    /\ ser_out' = to_variant_inline_transaction(ser_in, env)
    /\ UNCHANGED <<tx, env, check_result, pc, k, now, pseudo_start, billed_time,
                   trx_trace, exec_result, ret, ctx, calls, hist, ser_in>>

NextSerialize == Serialize

SpecSerialize == InitSerialize /\ [][NextSerialize]_vars

(***************************************************************************)
(* The life of a transaction: CheckTx, then, once accepted, ExecuteTx with *)
(* its dispatch loop and the engine's timer calls                          *)
(***************************************************************************)
InitExecute ==
    /\ tx \in ExecTxs
    /\ env \in ExecEnvs
    /\ ser_in = InlineTx("", "", <<>>, <<>>)
    /\ Fresh

\* pseudo_start = system_clock::now(); trx_trace.trx_id = GetHash();
ExecuteTxBegin ==
    /\ pc = "idle"
    /\ check_result.outcome = "accept"
    /\ pseudo_start' = now
    /\ trx_trace' = [trx_id |-> TxHash, elapsed |-> 0, traces |-> <<>>]
    /\ k' = 1
    /\ pc' = "loop"
    /\ hist' = [hist EXCEPT !.lastOp = "start"]
    /\ UNCHANGED <<tx, env, check_result, now, billed_time, exec_result, ret, ctx,
                   calls, ser_in, ser_out>>

\* trx_trace.traces.emplace_back(); DispatchInlineTransaction(back, trx, trx.contract, database, 0)
\* up to the point where the engine runs
DispatchEnter ==
    /\ pc = "loop"
    /\ k <= Len(tx.inlinetransactions)
    /\ LET trx == tx.inlinetransactions[k]
           c == DispatchCtx(trx, trx.contract, 0)
       IN /\ trx_trace' = [trx_trace EXCEPT !.traces = Append(@, EmptyInlineTrace)]
          /\ ctx' = c
          /\ calls' = Append(calls, CallRecord(k, trx.contract, 0, c))
    /\ pc' = "engine"
    /\ hist' = [hist EXCEPT !.entered = @ + 1]
    /\ UNCHANGED <<tx, env, check_result, k, now, pseudo_start, billed_time,
                   exec_result, ret, ser_in, ser_out>>

\* the clock advances while the engine runs
Tick ==
    /\ pc = "engine"
    /\ hist.ticks < MaxTicks
    /\ \E d \in Deltas :
          /\ now' = now + d
          /\ hist' = [hist EXCEPT !.ticks = @ + 1,
                                  !.run_ns = IF hist.paused THEN @ ELSE @ + d]
    /\ UNCHANGED <<tx, env, check_result, pc, k, pseudo_start, billed_time, trx_trace,
                   exec_result, ret, ctx, calls, ser_in, ser_out>>

\* the engine calls pause_billing_timer()
pause_billing_timer ==
    /\ pc = "engine"
    /\ IF billed_time > 0
       THEN UNCHANGED billed_time
       ELSE billed_time' = duration_cast_us(now - pseudo_start)
    /\ hist' = [hist EXCEPT !.lastOp = "pause", !.paused = TRUE,
                            !.paired = @ /\ ~hist.paused]
    /\ UNCHANGED <<tx, env, check_result, pc, k, now, pseudo_start, trx_trace,
                   exec_result, ret, ctx, calls, ser_in, ser_out>>

\* the engine calls resume_billing_timer()
resume_billing_timer ==
    /\ pc = "engine"
    /\ IF billed_time = 0
       THEN UNCHANGED <<pseudo_start, billed_time>>
       ELSE /\ pseudo_start' = now - billed_time * NsPerUs
            /\ billed_time' = 0
    /\ hist' = [hist EXCEPT !.lastOp = "resume", !.paused = FALSE,
                            !.paired = @ /\ hist.paused]
    /\ UNCHANGED <<tx, env, check_result, pc, k, now, trx_trace,
                   exec_result, ret, ctx, calls, ser_in, ser_out>>

\* ctx.execute(trace) returns: the trace is filled, the loop goes on
DispatchReturn ==
    /\ pc = "engine"
    /\ \E n \in 0..MaxNest :
          LET r == execute(ctx, n)
          IN /\ trx_trace' = [trx_trace EXCEPT !.traces[k] = r.trace]
             /\ calls' = calls \o r.calls
             /\ hist' = [hist EXCEPT !.completed = @ + 1, !.plans = Append(@, n)]
    /\ ctx' = NoCtx
    /\ k' = k + 1
    /\ pc' = "loop"
    /\ UNCHANGED <<tx, env, check_result, now, pseudo_start, billed_time,
                   exec_result, ret, ser_in, ser_out>>

\* mutant: the exception is swallowed and the loop goes on
DispatchRaise_swallow ==
    /\ pc = "engine"
    /\ \E e \in EngineErrors :
          /\ exec_result' = DoS(e)
          /\ hist' = [hist EXCEPT !.raised = e]
    /\ ctx' = NoCtx
    /\ k' = k + 1
    /\ pc' = "loop"
    /\ UNCHANGED <<tx, env, check_result, now, pseudo_start, billed_time, trx_trace,
                   ret, calls, ser_in, ser_out>>

\* ctx.execute(trace) throws a wasm::exception: the catch clause of ExecuteTx
DispatchRaise ==
    /\ pc = "engine"
    /\ \E e \in EngineErrors :
          /\ exec_result' = DoS(e)
          /\ hist' = [hist EXCEPT !.raised = e]
    /\ trx_trace' = NoTrace
    /\ ctx' = NoCtx
    /\ pc' = "done"
    /\ UNCHANGED <<tx, env, check_result, k, now, pseudo_start, billed_time,
                   ret, calls, ser_in, ser_out>>

\* after the loop: elapsed, to_variant, SetReturn, return true
ExecuteTxEnd ==
    /\ pc = "loop"
    /\ k > Len(tx.inlinetransactions)
    /\ LET t == [trx_trace EXCEPT !.elapsed = duration_cast_us(now - pseudo_start)]
       IN ret' = [set |-> TRUE, doc |-> to_variant_transaction_trace(t, env)]
    /\ trx_trace' = NoTrace
    /\ exec_result' = Accepted
    /\ pc' = "done"
    /\ UNCHANGED <<tx, env, check_result, k, now, pseudo_start, billed_time,
                   ctx, calls, hist, ser_in, ser_out>>

NextExecute ==
    \/ CheckTxCall
    \/ ExecuteTxBegin
    \/ DispatchEnter
    \/ Tick
    \/ pause_billing_timer
    \/ resume_billing_timer
    \/ DispatchReturn
    \/ DispatchRaise
    \/ ExecuteTxEnd

SpecExecute == InitExecute /\ [][NextExecute]_vars

(***************************************************************************)
(* Properties of admission (SpecAdmission)                                 *)
(***************************************************************************)
Checked == check_result # NoCheck
Itxs == tx.inlinetransactions

\* a contract the store can run: native, or deployed with code and abi
ContractOk(c) ==
    \/ c \in NativeContracts
    \/ /\ c \in DeployedAccounts
       /\ c \in ContractRecords
       /\ code_of(c) # <<>>
       /\ abi_of(c) # <<>>

AllContractsOk == \A i \in 1..Len(Itxs) : ContractOk(Itxs[i].contract)

\* some Permission of some inline transaction names an account other than the sender
HasMismatch ==
    \E i \in 1..Len(Itxs) :
        \E j \in 1..Len(Itxs[i].authorization) :
            Itxs[i].authorization[j].account # Sender

PassesBeforeFuel ==
    /\ Len(Itxs) > 0
    /\ CHECK_TX_FEE(tx, env)
    /\ env.regid_ok
    /\ AllContractsOk

PassesBeforeAuth ==
    /\ PassesBeforeFuel
    /\ env.min_fee_ok
    /\ tx.llFees > GetFuel(tx, env).fuel
    /\ env.sender = "registered"
    /\ env.sig_ok

\* whether a check, taken alone, fails on this transaction
FailsCheck(c) ==
    CASE c = "inline" -> Len(Itxs) = 0
      [] c = "fee" -> ~CHECK_TX_FEE(tx, env)
      [] c = "regid" -> ~env.regid_ok
      [] c = "contract" -> ~AllContractsOk
      [] c = "fuel" -> ~env.min_fee_ok \/ tx.llFees <= GetFuel(tx, env).fuel
      [] c = "account" -> env.sender = "missing"
      [] c = "pubkey" -> env.sender = "unregistered"
      [] c = "signature" -> env.sender = "registered" /\ ~env.sig_ok
      [] c = "authorization" -> HasMismatch

\* the outcomes a failing check may report
Reports(c) ==
    CASE c = "inline" -> {"MalformedTransaction"}
      [] c \in {"fee", "regid", "signature"} -> {"Framework"}
      [] c = "contract" -> {"ContractNotFound", "ContractIncomplete"}
      [] c = "fuel" -> {"InsufficientFee", "None"}
      [] c \in {"account", "pubkey"} -> {"UnregisteredAccount"}
      [] c = "authorization" -> {"AuthorizationDenied"}

\* the order the code runs its checks in
CodeOrder ==
    <<"inline", "fee", "regid", "contract", "fuel", "account", "pubkey", "signature",
      "authorization">>

\* the order with signature verification among the generic checks of step 2
StatedOrder ==
    <<"inline", "fee", "regid", "signature", "contract", "fuel", "account", "pubkey",
      "authorization">>

\* the first check of an order that fails on this transaction (0: none fails)
FirstFailing(order) ==
    IF \E i \in 1..Len(order) : FailsCheck(order[i])
    THEN order[CHOOSE i \in 1..Len(order) :
                  /\ FailsCheck(order[i])
                  /\ \A j \in 1..(i - 1) : ~FailsCheck(order[j])]
    ELSE "none"

LastEvaluated == check_result.evaluated[Len(check_result.evaluated)]

\* C1 (as stated): every transaction with a Permission naming another account
\* than the sender is rejected with AuthorizationDenied.
C1_Original ==
    (Checked /\ env.sender # "missing" /\ HasMismatch)
        => Kind(check_result) = "AuthorizationDenied"

\* C1 (amended): a transaction that passes every earlier check and has a Permission
\* naming another account than the sender is rejected with AuthorizationDenied; a
\* transaction with such a Permission is never accepted; and when every Permission
\* names the sender, authorization_is_valid raises nothing and CheckTx never
\* reports AuthorizationDenied.
C1_AuthorizationDenied ==
    Checked =>
        /\ (PassesBeforeAuth /\ HasMismatch)
              => Kind(check_result) = "AuthorizationDenied"
        /\ HasMismatch => check_result.outcome # "accept"
        /\ ~HasMismatch =>
              /\ authorization_is_valid(Itxs, SenderName(env)) = NoThrow
              /\ Kind(check_result) # "AuthorizationDenied"

C1_Witness ==
    /\ Checked
    /\ PassesBeforeAuth
    /\ HasMismatch
    /\ Kind(check_result) = "AuthorizationDenied"

\* C2 (as stated): every transaction whose fee is at most the fuel cost is
\* rejected with InsufficientFee.
C2_Original ==
    (Checked /\ env.min_fee_ok /\ tx.llFees <= GetFuel(tx, env).fuel)
        => Kind(check_result) = "InsufficientFee"

\* C2 (amended): a transaction that passes the checks before the fuel check
\* (non-empty list, framework fee and identity checks, contract existence) and
\* whose fee is at most the fuel cost of GetFuel is rejected with InsufficientFee;
\* no transaction whose fee is at most the fuel cost is accepted; and no
\* transaction whose fee exceeds the fuel cost is rejected with InsufficientFee.
C2_InsufficientFee ==
    (Checked /\ env.min_fee_ok) =>
        LET fuel == GetFuel(tx, env).fuel
        IN /\ (PassesBeforeFuel /\ tx.llFees <= fuel)
                 => Kind(check_result) = "InsufficientFee"
           /\ tx.llFees <= fuel => check_result.outcome # "accept"
           /\ tx.llFees > fuel => Kind(check_result) # "InsufficientFee"

C2_Witness ==
    /\ Checked
    /\ env.min_fee_ok
    /\ PassesBeforeFuel
    /\ tx.nRunStep > 0
    /\ tx.llFees = GetFuel(tx, env).fuel
    /\ Kind(check_result) = "InsufficientFee"

\* C3: CheckTx rejects with MalformedTransaction exactly when the list of inline
\* transactions is empty, and then no other check has run.
C3_MalformedIffEmpty ==
    Checked =>
        /\ Kind(check_result) = "MalformedTransaction" <=> Len(Itxs) = 0
        /\ Len(Itxs) = 0 => check_result.evaluated = <<"inline">>

C3_Witness ==
    /\ Checked
    /\ Len(Itxs) = 0
    /\ ~CHECK_TX_FEE(tx, env)
    /\ Kind(check_result) = "MalformedTransaction"

\* C4 (as stated): the rejection is that of the earliest failing check in the
\* order (1) non-empty list, (2) framework checks including signature
\* verification, (3) contract existence, (4) fuel, (5) registration and
\* authorization.
C4_Original ==
    (Checked /\ check_result.outcome = "reject")
        => LastEvaluated = FirstFailing(StatedOrder)

\* C4 (amended): CheckTx runs its checks in the order (1) non-empty list, (2) the
\* framework's fee and sender-identity checks, (3) contract existence, (4) fuel
\* affordability, (5) sender account found and registered, then signature
\* verification, then authorization; it stops at the first failure, reports that
\* check's rejection and evaluates no later check.
C4_CheckOrder ==
    Checked =>
        LET ev == check_result.evaluated
            n == Len(ev)
        IN /\ n >= 1
           /\ ev = SubSeq(CodeOrder, 1, n)
           /\ \A i \in 1..(n - 1) : ~FailsCheck(ev[i])
           /\ check_result.outcome = "accept"
                 <=> FirstFailing(CodeOrder) = "none"
           /\ check_result.outcome # "accept" =>
                 /\ ev[n] = FirstFailing(CodeOrder)
                 /\ Kind(check_result) \in Reports(ev[n])

C4_Witness ==
    /\ Checked
    /\ FailsCheck("contract")
    /\ FailsCheck("fuel")
    /\ FailsCheck("signature")
    /\ FailsCheck("authorization")
    /\ Kind(check_result) \in {"ContractNotFound", "ContractIncomplete"}
    /\ LastEvaluated = "contract"

(***************************************************************************)
(* Properties of the life of a transaction (SpecExecute)                   *)
(***************************************************************************)
AssertMessages ==
    {MsgNoInline, MsgNoAccount, MsgNoContract, MsgNoCode, MsgFee, MsgGetAccount,
     MsgUnregistered, MsgAuth}

\* how deep the nested traces under a trace go
RECURSIVE ChainDepth(_)
ChainDepth(t) ==
    IF t.inline_traces = <<>> THEN 0 ELSE 1 + ChainDepth(t.inline_traces[1])

TopCalls == SelectSeq(calls, LAMBDA c : c.top # 0)

\* C5: a failure inside CheckTx or ExecuteTx comes back as a rejection carrying
\* the code and message of the exception that caused it; nothing comes back as a
\* fault except a failed minimum-fee lookup in GetFuel, out of CheckTx.
C5_FailuresBecomeRejections ==
    /\ Checked =>
          /\ check_result.outcome \in {"accept", "reject", "fault"}
          /\ check_result.outcome = "fault" <=> (PassesBeforeFuel /\ ~env.min_fee_ok)
          /\ check_result.outcome = "fault" => LastEvaluated = "fuel"
          /\ (check_result.outcome = "reject"
                 /\ LastEvaluated \notin {"fee", "regid", "signature"})
                => /\ check_result.code = "account_operation_exception"
                   /\ check_result.msg \in AssertMessages
    /\ exec_result.outcome \in {"none", "accept", "reject"}
    /\ exec_result.outcome = "reject" <=> hist.raised # NoThrow
    /\ hist.raised # NoThrow =>
          /\ exec_result.code = hist.raised.code
          /\ exec_result.msg = hist.raised.msg

C5_Witness ==
    /\ check_result.outcome = "accept"
    /\ hist.raised \in EngineErrors
    /\ exec_result.outcome = "reject"
    /\ exec_result.code = "wasm_memory_exception"

\* C6: when the k-th dispatch raises, no later inline transaction is dispatched,
\* the traces built so far are dropped, SetReturn is never called and ExecuteTx
\* reports the exception's code and message; a return payload is set only when
\* every dispatch completed.
C6_AbortOnRaise ==
    /\ hist.raised # NoThrow =>
          /\ pc = "done"
          /\ hist.entered = k
          /\ hist.completed = k - 1
          /\ Len(TopCalls) = k
          /\ trx_trace = NoTrace
          /\ ~ret.set
          /\ exec_result =
                [outcome |-> "reject", code |-> hist.raised.code, msg |-> hist.raised.msg]
    /\ ret.set =>
          /\ hist.raised = NoThrow
          /\ hist.completed = Len(Itxs)
          /\ exec_result.outcome = "accept"

C6_Witness ==
    /\ hist.raised # NoThrow
    /\ k = 2
    /\ hist.completed = 1
    /\ Len(Itxs) >= 2
    /\ ~ret.set

\* C10: in a run where no dispatch raises, DispatchInlineTransaction is called
\* once per top-level inline transaction, in list order, with depth 0 and the
\* inline transaction's contract as receiver; every call hands the engine context
\* the depth and receiver it was given; and the trace holds one entry per
\* top-level inline transaction, the i-th filled by the i-th dispatch.
C10_DispatchPerInline ==
    /\ Len(TopCalls) = hist.entered
    /\ \A i \in 1..Len(TopCalls) :
          /\ TopCalls[i].top = i
          /\ TopCalls[i].depth = 0
          /\ TopCalls[i].receiver = Itxs[i].contract
          /\ TopCalls[i].ctx.trx = Itxs[i]
    /\ \A i \in 1..Len(calls) :
          /\ calls[i].ctx.recurse_depth = calls[i].depth
          /\ calls[i].ctx._receiver = calls[i].receiver
    /\ pc \in {"loop", "engine"} =>
          /\ Len(trx_trace.traces) = hist.entered
          /\ \A i \in 1..hist.completed :
                /\ trx_trace.traces[i].receiver = Itxs[i].contract
                /\ trx_trace.traces[i].trx = Itxs[i]
                /\ ChainDepth(trx_trace.traces[i]) = hist.plans[i]
    /\ ret.set =>
          /\ hist.entered = Len(Itxs)
          /\ "traces" \in DOMAIN ret.doc
          /\ Len(ret.doc.traces) = Len(Itxs)
          /\ \A i \in 1..Len(Itxs) :
                /\ ret.doc.traces[i].receiver = Str(Itxs[i].contract)
                /\ ret.doc.traces[i].trx.contract = Str(Itxs[i].contract)
                /\ ret.doc.traces[i].trx.action = Str(Itxs[i].action)
                /\ ("inline_traces" \in DOMAIN ret.doc.traces[i]) <=> hist.plans[i] > 0

C10_Witness ==
    /\ ret.set
    /\ Len(Itxs) >= 2
    /\ Itxs[1] # Itxs[2]
    /\ hist.plans[2] > 0
    /\ \E i \in 1..Len(calls) : calls[i].depth > 0

\* C7: two calls of pause_billing_timer in a row leave (pseudo_start, billed_time)
\* as the first call left them, whatever the clock did in between; and so do two
\* calls of resume_billing_timer in a row.
C7_Original ==
    [][((hist.lastOp = "pause" /\ hist'.lastOp = "pause")
           \/ (hist.lastOp = "resume" /\ hist'.lastOp = "resume"))
          => UNCHANGED <<pseudo_start, billed_time>>]_vars

\* C8: with every pause followed by a resume, the elapsed time ExecuteTx records
\* is the time the timer was running (paused intervals left out), and it is
\* not negative.
C8_Original ==
    (ret.set /\ hist.paired /\ ~hist.paused) =>
        /\ ret.doc.elapsed >= 0
        /\ ret.doc.elapsed = hist.run_ns \div NsPerUs

(***************************************************************************)
(* Properties of the serializer (SpecSerialize)                            *)
(***************************************************************************)
Serialized == ser_out # NoObject

\* C9: "data" is the lowercase hex of the raw payload whenever the action is
\* setcode or the payload is empty; it is decoded arguments only when an abi is
\* there, the action is not setcode, the payload is not empty and decoding
\* succeeds; a decoding failure falls back to the hex of the payload.
C9_Original ==
    Serialized =>
        /\ (ser_in.action = setcode \/ ser_in.data = <<>>)
              => ser_out.data = Str(ToHex(ser_in.data))
        /\ ser_out.data.type = "object"
              <=> /\ abi_for(ser_in.contract) # <<>>
                  /\ ser_in.action # setcode
                  /\ ser_in.data # <<>>
                  /\ env.unpack_ok
        /\ ~env.unpack_ok => ser_out.data = Str(ToHex(ser_in.data))

====
